---- MODULE Spec2Model ----
(***************************************************************************)
(* Model of the dense feed-forward network of the lecture notebook         *)
(* (sigmoid, mse, initialize_weights, forward_pass, predict, MSE and the   *)
(* class DenseNetwork with __init__, train and predict).                   *)
(*                                                                         *)
(* Numbers.  The notebook computes in floating point.  Here every real is  *)
(* a fixed-point integer counted in units of 1/Scale, a product is         *)
(* rescaled by Scale, and exp-based sigmoid is its piecewise-linear        *)
(* approximation.  Column vectors of shape (n,1) are sequences of length   *)
(* n, matrices are sequences of rows.  Python lists indexed from 0 (W, B,  *)
(* Z, A) are functions on 0..n-1; entries of numpy vectors, indexed from 0 *)
(* in Python, are numbered from 1 here.                                    *)
(*                                                                         *)
(* Exceptions.  An operator that can raise returns a record with a field   *)
(* err holding the name of the Python exception ("" when none is raised).  *)
(***************************************************************************)
EXTENDS Integers, Sequences, FiniteSets, TLC

\* ------------------------------------------------------------------ bounds
Scale == 16
MaxEpochs == 2
MaxCalls == 2

\* mse reads the entries range(10)
MseLen == 10

NoErr == ""

\* ------------------------------------------------------- numeric helpers
Mul(a, b) == (a * b) \div Scale

Clamp(v, lo, hi) == IF v < lo THEN lo ELSE IF v > hi THEN hi ELSE v

\* a numpy array holds computed numbers: the entries of f, evaluated once
Arr(f) == f \o <<>>

RECURSIVE SumTo(_, _)
\* sum of f[1] + ... + f[n]
SumTo(f, n) == IF n = 0 THEN 0 ELSE SumTo(f, n - 1) + f[n]

\* fixed-point square root (used by the initializer's scaling factor)
ISqrt(v) == CHOOSE s \in 0..(2 * Scale) : s * s <= v /\ (s + 1) * (s + 1) > v

\* --------------------------------------------------------- activations
\* sigmoid(z) = 1.0/(1.0+np.exp(-z)), piecewise-linear in fixed point
sigmoid(z) == Clamp((Scale \div 2) + (z \div 4), 0, Scale)

\* d_sigmoid(z) = sigmoid(z)*(1.0 - sigmoid(z))
d_sigmoid(z) == Mul(sigmoid(z), Scale - sigmoid(z))

\* a layer without activation
sigmoidVecPlain(z) == z

\* elementwise application to a column vector
sigmoidVec(z) == Arr([r \in 1..Len(z) |-> sigmoid(z[r])])

\* d_sigmoid applied to every entry of a column vector
d_sigmoidVec(z) == Arr([r \in 1..Len(z) |-> d_sigmoid(z[r])])

\* --------------------------------------------------------- numpy algebra
Rows(M) == Len(M)
Cols(M) == IF Len(M) = 0 THEN 0 ELSE Len(M[1])

\* M @ v for M of shape (n,k) and v of shape (k,1)
MatVec(M, v) ==
    Arr([r \in 1..Rows(M) |-> SumTo([c \in 1..Len(v) |-> Mul(M[r][c], v[c])], Len(v))])

\* M.T @ v for M of shape (n,k) and v of shape (n,1)
MatTVec(M, v) ==
    Arr([c \in 1..Cols(M) |-> SumTo([r \in 1..Len(v) |-> Mul(M[r][c], v[r])], Len(v))])

\* d @ a.T for d of shape (n,1) and a of shape (k,1): the (n,k) outer product
Outer(d, a) == Arr([r \in 1..Len(d) |-> Arr([c \in 1..Len(a) |-> Mul(d[r], a[c])])])

\* numpy broadcasting of two column vectors: equal lengths, or one of length 1
Broadcastable(n, k) == n = k \/ n = 1 \/ k = 1
BLen(n, k) == IF n >= k THEN n ELSE k
BAt(v, r) == IF Len(v) = 1 THEN v[1] ELSE v[r]
VecSub(a, b) == Arr([r \in 1..BLen(Len(a), Len(b)) |-> BAt(a, r) - BAt(b, r)])
VecMul(a, b) == Arr([r \in 1..BLen(Len(a), Len(b)) |-> Mul(BAt(a, r), BAt(b, r))])
VecAdd(a, b) == Arr([r \in 1..BLen(Len(a), Len(b)) |-> BAt(a, r) + BAt(b, r)])
VecScale(al, d) == Arr([r \in 1..Len(d) |-> Mul(al, d[r])])
MatSub(M, N) == Arr([r \in 1..Rows(M) |-> Arr([c \in 1..Cols(M) |-> M[r][c] - N[r][c]])])

\* ------------------------------------------------------------------ mse
\* mse(a, y) = .5*sum((a[i] - y[i])**2 for i in range(10))[0]
\* a[i] or y[i] past the end of the vector raises IndexError
mse(a, y) ==
    IF Len(a) < MseLen \/ Len(y) < MseLen
    THEN [err |-> "IndexError", val |-> 0]
    ELSE [err |-> NoErr,
          val |-> SumTo([i \in 1..MseLen |-> Mul(a[i] - y[i], a[i] - y[i])], MseLen) \div 2]

\* ----------------------------------------------------- initialize_weights
\* the placeholder [[0.0]] kept at index 0 of W, B and Z
Placeholder == <<<<0>>>>

\* np.random.randn: one draw per seed, layer, row and column
Randn(seed, i, r, c) == (((seed * (3 * i + 5 * r + 7 * c)) % 9) - 4) * (Scale \div 4)

\* np.sqrt(2/layers[i-1])
HeScale(n) == ISqrt((2 * Scale * Scale) \div n)

\* an initializer whose matrices are (layers[i-1], layers[i])
InitWTransposed(layers, seed) ==
    [i \in 0..(IF Len(layers) >= 1 THEN Len(layers) - 1 ELSE 0) |->
        IF i = 0 THEN Placeholder
        ELSE Arr([c \in 1..layers[i] |->
                Arr([r \in 1..layers[i + 1] |-> Mul(Randn(seed, i, r, c), HeScale(layers[i]))])])]

\* W = [[0.0]] followed by one (layers[i], layers[i-1]) matrix per i in 1..len-1
InitW(layers, seed) ==
    [i \in 0..(IF Len(layers) >= 1 THEN Len(layers) - 1 ELSE 0) |->
        IF i = 0 THEN Placeholder
        ELSE Arr([r \in 1..layers[i + 1] |->
                Arr([c \in 1..layers[i] |-> Mul(Randn(seed, i, r, c), HeScale(layers[i]))])])]

\* B = [[0.0]] followed by one (layers[i], 1) vector per i in 1..len-1
InitB(layers, seed) ==
    [i \in 0..(IF Len(layers) >= 1 THEN Len(layers) - 1 ELSE 0) |->
        IF i = 0 THEN Placeholder
        ELSE Arr([r \in 1..layers[i + 1] |-> Mul(Randn(seed + 1, i, r, 0), HeScale(layers[i]))])]

\* len() of a Python list held as a function on 0..n-1
PyLen(f) == Cardinality(DOMAIN f)

\* f[idx] of a Python list: a negative index counts from the end
PyAt(f, idx) == IF idx < 0 THEN f[PyLen(f) + idx] ELSE f[idx]

\* -------------------------------------------------------------- forward_pass
RECURSIVE ForwardFrom(_, _, _, _, _, _)
\* the loop "for i in range(1, L + 1)" from index i on, with Z and A so far
ForwardFrom(Wc, Bc, Zc, Ac, i, Lc) ==
    IF i > Lc THEN [err |-> NoErr, Z |-> Zc, A |-> Ac]
    ELSE IF Cols(Wc[i]) # Len(Ac[i - 1])
         THEN [err |-> "ValueError", Z |-> Zc, A |-> Ac]
         ELSE LET z == VecAdd(MatVec(Wc[i], Ac[i - 1]), Bc[i])
                  a == sigmoidVec(z)
              IN  ForwardFrom(Wc, Bc, Zc @@ (i :> z), Ac @@ (i :> a), i + 1, Lc)

\* forward_pass(W, B, xi): Z = [[0.0]], A = [xi], L = len(W) - 1
forward_pass(Wc, Bc, xi) ==
    ForwardFrom(Wc, Bc, (0 :> Placeholder), (0 :> xi), 1, PyLen(Wc) - 1)

\* forward_pass(W, B, xi, predict_vector = True) returns A[-1]
forward_vector(Wc, Bc, xi) ==
    LET f == forward_pass(Wc, Bc, xi)
    IN  [err |-> f.err, val |-> IF f.err = NoErr THEN PyAt(f.A, -1) ELSE <<>>]

RECURSIVE ArgMaxFrom(_, _, _)
\* the scan of np.argmax from entry r on: a later entry replaces the best one
\* so far only when it is greater
ArgMaxFrom(v, r, best) ==
    IF r > Len(v) THEN best
    ELSE ArgMaxFrom(v, r + 1, IF v[r] > v[best] THEN r ELSE best)

RECURSIVE ArgMaxLastFrom(_, _, _)
\* a scan in which an equal later entry replaces the best one so far
ArgMaxLastFrom(v, r, best) ==
    IF r > Len(v) THEN best
    ELSE ArgMaxLastFrom(v, r + 1, IF v[r] >= v[best] THEN r ELSE best)

ArgMaxLast(v) == ArgMaxLastFrom(v, 2, 1) - 1

\* np.argmax of a column vector, as a 0-based index
ArgMax(v) == ArgMaxFrom(v, 2, 1) - 1

\* ------------------------------------------------------------------ MSE
\* a pairing that drops the last pair when the lists differ in length
ZipLenShort(X, Y) ==
    LET m == IF Len(X) <= Len(Y) THEN Len(X) ELSE Len(Y)
    IN  IF m >= 1 /\ Len(X) # Len(Y) THEN m - 1 ELSE m

\* zip(X, y) pairs positionally and stops at the shorter list
ZipLen(X, Y) == IF Len(X) <= Len(Y) THEN Len(X) ELSE Len(Y)

RECURSIVE MSELoop(_, _, _, _, _, _)
\* the loop of MSE from pair j on, with the cost so far
MSELoop(Wc, Bc, X, Y, j, cost) ==
    IF j > ZipLen(X, Y) THEN [err |-> NoErr, val |-> cost]
    ELSE LET a == forward_vector(Wc, Bc, X[j])
         IN  IF a.err # NoErr THEN [err |-> a.err, val |-> 0]
             ELSE LET e == mse(a.val, Y[j])
                  IN  IF e.err # NoErr THEN [err |-> e.err, val |-> 0]
                      ELSE MSELoop(Wc, Bc, X, Y, j + 1, cost + e.val)

\* MSE(W, B, X, y) = cost/m; m = 0 raises ZeroDivisionError
MSE(Wc, Bc, X, Y) ==
    LET r == MSELoop(Wc, Bc, X, Y, 1, 0)
    IN  IF r.err # NoErr THEN r
        ELSE IF ZipLen(X, Y) = 0 THEN [err |-> "ZeroDivisionError", val |-> 0]
        ELSE [err |-> NoErr, val |-> r.val \div ZipLen(X, Y)]

\* ------------------------------------------------------------------ inputs
\* layer-size sequences handed to DenseNetwork(layers = ...)
Topologies ==
    { <<>>, <<1>>, <<1, 2>>, <<1, MseLen>>, <<1, MseLen + 1>>,
      <<1, 2, MseLen>>, <<1, 2, 1, MseLen>> }

\* seeds of the random initial parameters
Seeds == {1}

\* a one-hot label of length n with entry c (numbered from 1) set to 1.0
OneHot(n, c) == Arr([r \in 1..n |-> IF r = c THEN Scale ELSE 0])

\* feature vectors with values in [0,1]
Features == { <<Scale>>, <<Scale \div 2>>, <<Scale, 0>> }

\* (X_train, y_train) pairs offered to train
Datasets ==
    { [X |-> <<>>, Y |-> <<>>],
      [X |-> << <<Scale>> >>, Y |-> << OneHot(MseLen, 1) >>],
      [X |-> << <<Scale>>, <<Scale \div 2>> >>, Y |-> << OneHot(MseLen, 1), OneHot(MseLen, 2) >>],
      [X |-> << <<Scale>> >>, Y |-> << OneHot(MseLen + 1, 1) >>],
      [X |-> << <<Scale>>, <<Scale, 0>> >>, Y |-> << OneHot(MseLen, 1), OneHot(MseLen, 2) >>],
      [X |-> << <<Scale>> >>, Y |-> << OneHot(2, 1) >>],
      [X |-> << <<Scale>>, <<Scale \div 2>> >>, Y |-> << OneHot(MseLen, 1) >>],
      [X |-> << <<Scale>> >>, Y |-> <<>>] }

\* the learning rate 0.5
Alphas == { Scale \div 2 }

\* ------------------------------------------------------------------- state
VARIABLES
    state,        \* "Unbuilt", "Constructed", "Training", "Trained", "Failed"
    layers,       \* self.layers
    W, B,         \* self.W, self.B
    has_errors_,  \* whether the attribute self.errors_ exists
    errors_,      \* self.errors_
    err,          \* exception raised by the last train call ("" if none)
    pc,           \* next statement of train: "idle" outside train
    X_train, y_train, alpha, epochs,   \* arguments of the latest train call
    k, j, i, L,   \* epochs completed, current pair, layer index, L of train
    Z, A, deltas, \* locals of the current example
    prediction,   \* latest predict: exception name, returned index, and its argument
    calls,        \* number of train calls made so far
    updates,      \* per layer: updates applied during the current train call
    W_pre, B_pre, \* parameters as they were when the current example's forward pass ran
    snaps,        \* parameters on entry to train and after each completed epoch
    run           \* the calls in a row that returned with the latest dataset and alpha:
                  \* the parameters before the first of them, and the epochs of all
                  \* but the latest

net == <<layers, W, B, has_errors_, errors_>>
args == <<X_train, y_train, alpha, epochs>>
locals == <<k, j, i, L, Z, A, deltas>>
ghost == <<calls, updates, W_pre, B_pre, snaps, run>>
vars == <<state, net, err, pc, args, locals, prediction, ghost>>

NoFn == <<>>
NoPrediction == [err |-> NoErr, val |-> -1, x |-> <<>>]
NoRun == [W |-> NoFn, B |-> NoFn, acc |-> 0]

Init ==
    /\ state = "Unbuilt"
    /\ layers = <<>>
    /\ W = NoFn /\ B = NoFn
    /\ has_errors_ = FALSE
    /\ errors_ = <<>>
    /\ err = NoErr
    /\ pc = "idle"
    /\ X_train = <<>> /\ y_train = <<>> /\ alpha = 0 /\ epochs = 0
    /\ k = 0 /\ j = 0 /\ i = 0 /\ L = 0
    /\ Z = NoFn /\ A = NoFn /\ deltas = NoFn
    /\ prediction = NoPrediction
    /\ calls = 0
    /\ updates = NoFn
    /\ W_pre = NoFn /\ B_pre = NoFn
    /\ snaps = <<>>
    /\ run = NoRun

\* ---------------------------------------------------------------- __init__
\* DenseNetwork(layers): stores layers and the initial W, B; nothing else
Construct(lay, seed) ==
    /\ state = "Unbuilt"
    /\ layers' = lay
    /\ W' = InitW(lay, seed)
    /\ B' = InitB(lay, seed)
    /\ state' = "Constructed"
    /\ UNCHANGED <<has_errors_, errors_, err, pc, args, locals, prediction, ghost>>

\* ------------------------------------------------------------------- train
\* an exception leaves train and reaches the caller
Raise(e) ==
    /\ err' = e
    /\ pc' = "idle"
    /\ state' = "Failed"

\* range(epochs + 1) in place of range(epochs)
EpochRemainsInclusive(kk, n) == kk <= n

\* for k in range(epochs): whether an epoch remains after kk completed ones
EpochRemains(kk, n) == kk < n

\* an epoch loop that is left after its first epoch
AtEpochHeadOnce(kk, n, m) ==
    IF EpochRemains(kk, n) /\ kk < 1
    THEN (IF m >= 1 THEN "forward" ELSE "epoch_end")
    ELSE "idle"

\* where control goes at the head of the epoch loop, m pairs in zip(X, y)
AtEpochHead(kk, n, m) ==
    IF EpochRemains(kk, n)
    THEN (IF m >= 1 THEN "forward" ELSE "epoch_end")
    ELSE "idle"

StateOf(p) == IF p = "idle" THEN "Trained" ELSE "Training"

\* an inner loop that leaves out the last pair
AfterPairShort(jj, m) == IF jj + 1 < m THEN "forward" ELSE "epoch_end"

\* where control goes after the pair jj of an epoch, m pairs in zip(X, y)
AfterPair(jj, m) == IF jj < m THEN "forward" ELSE "epoch_end"

\* range(L-2, 0, -1) in place of range(L-1, 0, -1)
HiddenFirstSkips(Lc) == Lc - 2

\* first index of "for i in range(L-1, 0, -1)"
HiddenFirst(Lc) == Lc - 1

\* a hidden loop with step -2
HiddenNextSkips(ic) == ic - 2

\* next index of "for i in range(L-1, 0, -1)"
HiddenNext(ic) == ic - 1

\* a history that starts with the baseline entered twice
BaselineTwice(v) == <<v, v>>

\* self.errors_ = [MSE(self.W, self.B, X_train, y_train)]
Baseline(v) == <<v>>

\* self.errors_ = [MSE(...)], L = len(self.layers) - 1, first loop heads
TrainEnter(ds, al, n) ==
    /\ state \in {"Constructed", "Trained", "Failed"}
    /\ pc = "idle"
    /\ calls < MaxCalls
    /\ calls' = calls + 1
    /\ prediction' = NoPrediction
    /\ LET base == MSE(W, B, ds.X, ds.Y)
           Lc == Len(layers) - 1
       IN  IF base.err # NoErr
           THEN /\ Raise(base.err)
                /\ X_train' = ds.X /\ y_train' = ds.Y
                /\ UNCHANGED <<net, alpha, epochs, locals, updates, W_pre, B_pre, snaps, run>>
           ELSE /\ X_train' = ds.X /\ y_train' = ds.Y /\ alpha' = al /\ epochs' = n
                /\ errors_' = Baseline(base.val)
                /\ has_errors_' = TRUE
                /\ err' = NoErr
                /\ L' = Lc
                /\ k' = 0
                /\ j' = 1
                /\ pc' = AtEpochHead(0, n, ZipLen(ds.X, ds.Y))
                /\ state' = StateOf(pc')
                /\ updates' = [l \in 1..Lc |-> 0]
                /\ snaps' = << [W |-> W, B |-> B] >>
                /\ run' = IF state = "Trained" /\ X_train = ds.X /\ y_train = ds.Y /\ alpha = al
                          THEN [run EXCEPT !.acc = @ + epochs]
                          ELSE [W |-> W, B |-> B, acc |-> 0]
                /\ UNCHANGED <<layers, W, B, i, Z, A, deltas, W_pre, B_pre>>

\* a dictionary that is cleared nowhere: the one the previous pair filled
StaleDict == deltas

\* deltas = dict(): a new empty dictionary for the pair
NewDict == NoFn

\* Z, A = forward_pass(self.W, self.B, xi); deltas = dict()
ExampleForward ==
    /\ pc = "forward"
    /\ LET f == forward_pass(W, B, X_train[j])
       IN  IF f.err # NoErr
           THEN /\ Raise(f.err)
                /\ UNCHANGED <<Z, A, deltas, W_pre, B_pre>>
           ELSE /\ Z' = f.Z /\ A' = f.A
                /\ deltas' = NewDict
                /\ W_pre' = W /\ B_pre' = B
                /\ pc' = "output_delta"
                /\ UNCHANGED <<state, err>>
    /\ UNCHANGED <<net, args, k, j, i, L, prediction, calls, updates, snaps, run>>

\* index of a Python list of length n that idx denotes
PyIdx(n, idx) == IF idx < 0 THEN n + idx ELSE idx

\* output_error = (A[L] - yi)*d_sigmoid(Z[L])
OutputError(Ac, Zc, yi, Lc) ==
    LET aL == PyAt(Ac, Lc)
        zi == PyIdx(PyLen(Zc), Lc)
    IN  IF ~Broadcastable(Len(aL), Len(yi))
        THEN [err |-> "ValueError", val |-> <<>>]
        ELSE IF zi = 0
        THEN [err |-> "TypeError", val |-> <<>>]
        ELSE IF ~Broadcastable(BLen(Len(aL), Len(yi)), Len(Zc[zi]))
        THEN [err |-> "ValueError", val |-> <<>>]
        ELSE [err |-> NoErr, val |-> VecMul(VecSub(aL, yi), d_sigmoidVec(Zc[zi]))]

\* deltas[L] = output_error, then the head of the hidden loop
OutputDelta ==
    /\ pc = "output_delta"
    /\ LET o == OutputError(A, Z, y_train[j], L)
       IN  IF o.err # NoErr
           THEN /\ Raise(o.err)
                /\ UNCHANGED <<deltas, i>>
           ELSE /\ deltas' = (L :> o.val) @@ deltas
                /\ IF HiddenFirst(L) >= 1
                   THEN pc' = "hidden_delta" /\ i' = HiddenFirst(L)
                   ELSE IF L >= 1
                        THEN pc' = "update" /\ i' = 1
                        ELSE pc' = AfterPair(j, ZipLen(X_train, y_train)) /\ i' = i
                /\ UNCHANGED <<state, err>>
    /\ UNCHANGED <<net, args, k, j, L, Z, A, prediction, ghost>>

\* (self.W[i+1].T @ deltas[i+1])*d_sigmoid(Z[i])
HiddenError(Wc, dc, Zc, ic) ==
    IF (ic + 1) \notin DOMAIN Wc
    THEN [err |-> "IndexError", val |-> <<>>]
    ELSE IF (ic + 1) \notin DOMAIN dc
    THEN [err |-> "KeyError", val |-> <<>>]
    ELSE IF Rows(Wc[ic + 1]) # Len(dc[ic + 1])
    THEN [err |-> "ValueError", val |-> <<>>]
    ELSE IF ~Broadcastable(Cols(Wc[ic + 1]), Len(Zc[ic]))
    THEN [err |-> "ValueError", val |-> <<>>]
    ELSE [err |-> NoErr,
          val |-> VecMul(MatTVec(Wc[ic + 1], dc[ic + 1]), d_sigmoidVec(Zc[ic]))]

\* deltas[i] = ..., then the next index of the hidden loop
HiddenDelta ==
    /\ pc = "hidden_delta"
    /\ LET h == HiddenError(W, deltas, Z, i)
       IN  IF h.err # NoErr
           THEN /\ Raise(h.err)
                /\ UNCHANGED <<deltas, i>>
           ELSE /\ deltas' = (i :> h.val) @@ deltas
                /\ IF HiddenNext(i) >= 1
                   THEN pc' = "hidden_delta" /\ i' = HiddenNext(i)
                   ELSE pc' = "update" /\ i' = 1
                /\ UNCHANGED <<state, err>>
    /\ UNCHANGED <<net, args, k, j, L, Z, A, prediction, ghost>>

\* an update that leaves out the learning rate
UpdatedWNoRate(Wi, al, d, a) == MatSub(Wi, Outer(d, a))

\* self.W[i] -= alpha*deltas[i] @ A[i-1].T
UpdatedW(Wi, al, d, a) == MatSub(Wi, Outer(VecScale(al, d), a))

\* self.B[i] -= alpha*deltas[i]
UpdatedB(Bi, al, d) == VecSub(Bi, VecScale(al, d))

\* last index of "for i in range(1, L+1)"
UpdateLast(Lc) == Lc

\* one iteration of the update loop, then the next loop head
UpdateLayer ==
    /\ pc = "update"
    /\ IF i \notin DOMAIN deltas
       THEN /\ Raise("KeyError")
            /\ UNCHANGED <<W, B, i, j, updates, snaps>>
       ELSE IF Len(deltas[i]) # Rows(W[i]) \/ Len(A[i - 1]) # Cols(W[i])
       THEN /\ Raise("ValueError")
            /\ UNCHANGED <<W, B, i, j, updates, snaps>>
       ELSE /\ W' = [W EXCEPT ![i] = UpdatedW(W[i], alpha, deltas[i], A[i - 1])]
            /\ B' = [B EXCEPT ![i] = UpdatedB(B[i], alpha, deltas[i])]
            /\ updates' = [updates EXCEPT ![i] = @ + 1]
            /\ IF i < UpdateLast(L)
               THEN pc' = "update" /\ i' = i + 1 /\ j' = j /\ snaps' = snaps
               ELSE /\ pc' = AfterPair(j, ZipLen(X_train, y_train))
                    /\ i' = i
                    /\ j' = IF pc' = "forward" THEN j + 1 ELSE j
                    /\ snaps' = IF pc' = "epoch_end"
                                THEN Append(snaps, [W |-> W', B |-> B'])
                                ELSE snaps
            /\ UNCHANGED <<state, err>>
    /\ UNCHANGED <<layers, has_errors_, errors_, args, k, L, Z, A, deltas,
                   prediction, calls, W_pre, B_pre, run>>

\* self.errors_ = [...] in place of self.errors_.append(...)
RecordedAlone(h, v) == <<v>>

\* self.errors_.append(...)
Recorded(h, v) == Append(h, v)

\* self.errors_.append(MSE(...)), then the head of the epoch loop
EpochEnd ==
    /\ pc = "epoch_end"
    /\ LET e == MSE(W, B, X_train, y_train)
       IN  IF e.err # NoErr
           THEN /\ Raise(e.err)
                /\ UNCHANGED <<errors_, k, j>>
           ELSE /\ errors_' = Recorded(errors_, e.val)
                /\ k' = k + 1
                /\ j' = 1
                /\ pc' = AtEpochHead(k + 1, epochs, ZipLen(X_train, y_train))
                /\ state' = StateOf(pc')
                /\ err' = err
    /\ UNCHANGED <<layers, W, B, has_errors_, args, i, L, Z, A, deltas,
                   prediction, ghost>>

\* ----------------------------------------------------------------- predict
\* a predict whose forward pass accumulates z in place in B[1]
PredictInPlace(xi) ==
    /\ state \in {"Constructed", "Trained", "Failed"}
    /\ pc = "idle"
    /\ LET f == forward_pass(W, B, xi)
       IN  /\ prediction' = [err |-> f.err,
                             val |-> IF f.err = NoErr THEN ArgMax(PyAt(f.A, -1)) ELSE -1,
                             x |-> xi]
           /\ B' = IF f.err = NoErr /\ PyLen(B) > 1 THEN [B EXCEPT ![1] = f.Z[1]] ELSE B
    /\ UNCHANGED <<state, layers, W, has_errors_, errors_, err, pc, args, locals, ghost>>

\* DenseNetwork.predict(xi) = np.argmax(A[-1]) of forward_pass(self.W, self.B, xi)
Predict(xi) ==
    /\ state \in {"Constructed", "Trained", "Failed"}
    /\ pc = "idle"
    /\ LET f == forward_vector(W, B, xi)
       IN  prediction' = [err |-> f.err,
                          val |-> IF f.err = NoErr THEN ArgMax(f.val) ELSE -1,
                          x |-> xi]
    /\ UNCHANGED <<state, net, err, pc, args, locals, ghost>>

\* ------------------------------------------------- train as one computation
RECURSIVE HiddenDeltas(_, _, _, _)
\* the loop "for i in range(L-1, 0, -1)" from index ic on, with the deltas so far
HiddenDeltas(Wc, dc, Zc, ic) ==
    IF ic < 1 THEN dc
    ELSE HiddenDeltas(Wc, (ic :> HiddenError(Wc, dc, Zc, ic).val) @@ dc, Zc, ic - 1)

\* the deltas of one pair: deltas[L], then deltas[L-1], ..., deltas[1]
Backprop(P, x, y, Lc) ==
    LET f == forward_pass(P.W, P.B, x)
    IN  HiddenDeltas(P.W, (Lc :> OutputError(f.A, f.Z, y, Lc).val), f.Z, Lc - 1)

RECURSIVE UpdateFrom(_, _, _, _, _, _)
\* the loop "for i in range(1, L+1)" from index ic on
UpdateFrom(P, dc, Ac, al, ic, Lc) ==
    IF ic > Lc THEN P
    ELSE UpdateFrom([W |-> [P.W EXCEPT ![ic] = UpdatedW(P.W[ic], al, dc[ic], Ac[ic - 1])],
                     B |-> [P.B EXCEPT ![ic] = UpdatedB(P.B[ic], al, dc[ic])]],
                    dc, Ac, al, ic + 1, Lc)

\* the body of the inner loop of train for the pair (x, y)
PairStep(P, x, y, al, Lc) ==
    UpdateFrom(P, Backprop(P, x, y, Lc), forward_pass(P.W, P.B, x).A, al, 1, Lc)

RECURSIVE PairsFrom(_, _, _, _, _, _)
\* the loop "for xi, yi in zip(X_train, y_train)" from pair jj on
PairsFrom(P, X, Y, al, jj, Lc) ==
    IF jj > ZipLen(X, Y) THEN P
    ELSE PairsFrom(PairStep(P, X[jj], Y[jj], al, Lc), X, Y, al, jj + 1, Lc)

RECURSIVE EpochsFrom(_, _, _, _, _, _)
\* the loop "for k in range(epochs)" with n epochs left
EpochsFrom(P, X, Y, al, n, Lc) ==
    IF n <= 0 THEN P
    ELSE EpochsFrom(PairsFrom(P, X, Y, al, 1, Lc), X, Y, al, n - 1, Lc)

\* ------------------------------------------------------------ specification
Next ==
    \/ \E lay \in Topologies, seed \in Seeds : Construct(lay, seed)
    \/ \E ds \in Datasets, al \in Alphas, n \in 0..MaxEpochs : TrainEnter(ds, al, n)
    \/ ExampleForward
    \/ OutputDelta
    \/ HiddenDelta
    \/ UpdateLayer
    \/ EpochEnd
    \/ \E xi \in Features : Predict(xi)

Spec == Init /\ [][Next]_vars

\* ------------------------------------------------------------------ claims
\* number of pairs the latest train call iterates over
PairCount == ZipLen(X_train, y_train)

\* s is a prefix of t
IsPrefix(s, t) == Len(s) <= Len(t) /\ \A e \in 1..Len(s) : t[e] = s[e]

\* every pair of the dataset has layers[0] features and layers[L] label entries
WellShaped(lay, X, Y) ==
    /\ Len(lay) >= 2
    /\ \A e \in 1..ZipLen(X, Y) : Len(X[e]) = lay[1] /\ Len(Y[e]) = lay[Len(lay)]

\* C1: while train runs and when it has returned, the loss history holds one
\* entry per completed epoch plus the baseline; entry 0 is the dataset loss of
\* the parameters on entry to train, entry e that of the parameters left by the
\* last update of epoch e; on return there are exactly epochs + 1 entries.
C1_LossHistoryPerEpoch ==
    (state \in {"Training", "Trained"}) =>
        /\ has_errors_
        /\ Len(errors_) = k + 1
        /\ (state = "Trained" => k = epochs)
        /\ Len(snaps) >= Len(errors_)
        /\ (pc = "forward" => Len(snaps) = Len(errors_))
        /\ \A e \in 1..Len(errors_) :
              errors_[e] = MSE(snaps[e].W, snaps[e].B, X_train, y_train).val

C1_Witness ==
    /\ state = "Trained"
    /\ epochs >= 2
    /\ Len(errors_) = epochs + 1
    /\ errors_[1] # errors_[2]
    /\ errors_[2] # errors_[3]

C3_EmptyHistoryOnConstruct ==
    (state = "Constructed" /\ Len(layers) >= 2) => (has_errors_ /\ Len(errors_) = 0)

\* C4: pairs are processed one at a time in the caller's order: when the
\* forward pass of pair j of epoch k+1 runs, every layer has received exactly
\* k*m + j - 1 updates; during the backward pass none is added; the update
\* loop adds one per layer in increasing i; on return every layer has
\* received exactly epochs*m updates.
C4_SequentialUpdates ==
    LET m == PairCount
        done == k * m + (j - 1)
    IN  /\ (pc \in {"forward", "output_delta", "hidden_delta"}) =>
               \A l \in 1..L : updates[l] = done
        /\ (pc \in {"output_delta", "hidden_delta", "update"}) =>
               A[0] = X_train[j]
        /\ (pc = "update") =>
               \A l \in 1..L : updates[l] = IF l < i THEN done + 1 ELSE done
        /\ (pc = "epoch_end") =>
               \A l \in 1..L : updates[l] = (k + 1) * m
        /\ (state = "Trained") =>
               \A l \in 1..L : updates[l] = epochs * m

C4_Witness ==
    /\ state = "Trained"
    /\ epochs >= 2
    /\ PairCount >= 2
    /\ L >= 2
    /\ \A l \in 1..L : updates[l] = epochs * PairCount

\* the update rule written out entry by entry
RuleW(l) ==
    \A r \in 1..Rows(W[l]) : \A c \in 1..Cols(W[l]) :
        W[l][r][c] = W_pre[l][r][c] - Mul(Mul(alpha, deltas[l][r]), A[l - 1][c])
RuleB(l) ==
    \A r \in 1..Len(B[l]) : B[l][r] = B_pre[l][r] - Mul(alpha, deltas[l][r])

\* the deltas of the current pair as the parameters before its update give them
DeltasFromPre ==
    /\ deltas[L] = OutputError(A, Z, y_train[j], L).val
    /\ \A l \in 1..(L - 1) : deltas[l] = HiddenError(W_pre, deltas, Z, l).val

\* C5: within one pair's step W and B are not written before every delta
\* exists; the deltas are those of the parameters before the update, Z and A
\* those of the forward pass on them; each updated layer i holds
\* W[i] - alpha*delta[i]*A[i-1]^T and B[i] - alpha*delta[i], the others are
\* untouched.
C5_UpdateFromPreUpdateValues ==
    /\ (pc \in {"output_delta", "hidden_delta"}) => (W = W_pre /\ B = B_pre)
    /\ (pc \in {"output_delta", "hidden_delta", "update"}) =>
           LET f == forward_pass(W_pre, B_pre, X_train[j])
           IN  Z = f.Z /\ A = f.A
    /\ (pc = "update") =>
           /\ DOMAIN deltas = 1..L
           /\ DeltasFromPre
           /\ \A l \in 1..L :
                 IF l < i THEN RuleW(l) /\ RuleB(l)
                 ELSE W[l] = W_pre[l] /\ B[l] = B_pre[l]
    /\ (pc \in {"forward", "epoch_end", "idle"} /\ state \in {"Training", "Trained"}
            /\ L >= 1 /\ updates[1] >= 1) =>
           \A l \in 1..L : RuleW(l) /\ RuleB(l)

C5_Witness ==
    /\ pc = "update"
    /\ L >= 2
    /\ i = L
    /\ W[1] # W_pre[1]
    /\ W[i] = W_pre[i]
    /\ \E r \in 1..Len(deltas[1]) : deltas[1][r] # 0

\* the keys of deltas are exactly lo..L
KeysFrom(lo) == DOMAIN deltas = lo..L

\* C6: delta[L] is computed first and the hidden deltas in the order
\* L-1, ..., 1: when delta[i] is about to be computed exactly the keys
\* i+1..L exist, and no step of the pair's backward pass or update changes a
\* delta that exists.
C6_DeltasInDecreasingOrder ==
    [][/\ (pc' = "output_delta") => (deltas' = NoFn)
       /\ (pc' = "hidden_delta") => (i' >= 1 /\ i' < L /\ DOMAIN deltas' = (i' + 1)..L)
       /\ (pc' = "update") => (DOMAIN deltas' = 1..L)
       /\ (pc = "output_delta" /\ pc' # "idle") => (DOMAIN deltas' = {L})
       /\ (pc = "hidden_delta" /\ pc' # "idle") => (DOMAIN deltas' = i..L)
       /\ (pc \in {"output_delta", "hidden_delta", "update"}) =>
              \A l \in DOMAIN deltas : l \in DOMAIN deltas' /\ deltas'[l] = deltas[l]]_vars

C6_Witness ==
    /\ pc = "hidden_delta"
    /\ L = 3
    /\ i = 1
    /\ DOMAIN deltas = {2, 3}

\* C7: no network with fewer than two layer sizes is ever constructed.
C7_ShortTopologyRejected ==
    (state # "Unbuilt") => Len(layers) >= 2

\* C8: a train call of a network of two or more layer sizes on an empty
\* dataset fails with EmptyDatasetError.
C8_EmptyDatasetError ==
    (state = "Failed" /\ Len(layers) >= 2 /\ Len(X_train) = 0) => err = "EmptyDatasetError"

\* C9: train never goes on, nor returns, with a pair whose feature or label
\* length does not match the topology.
C9_MismatchNeverAbsorbed ==
    (state \in {"Training", "Trained"}) => WellShaped(layers, X_train, y_train)

\* C10: a train call on a non-empty well-shaped dataset never fails.
C10_TrainAlwaysCompletes ==
    (state = "Failed") => ~(PairCount >= 1 /\ WellShaped(layers, X_train, y_train))

\* C11: calls to train in a row with the same dataset and learning rate leave
\* the parameters that one call with the sum of their epochs leaves when it
\* starts from the parameters the first of them started from: train resumes,
\* it never starts again from other parameters.
C11_ResumeEqualsOneLongCall ==
    (state = "Trained") =>
        [W |-> W, B |-> B] =
            EpochsFrom([W |-> run.W, B |-> run.B], X_train, y_train, alpha,
                       run.acc + epochs, L)

C11_Witness ==
    /\ state = "Trained"
    /\ run.acc >= 1
    /\ epochs >= 1
    /\ L >= 2
    /\ W # snaps[1].W
    /\ snaps[1].W # run.W

\* C12: the steps that run predict, forward_pass or the dataset loss MSE leave
\* the topology and W, B as they are, and predict leaves the loss history as
\* it is; as long as the backward pass of a pair runs, a second forward pass
\* on the pair yields the Z and A of the first.
C12_ForwardPredictLossAreReadOnly ==
    [][/\ (prediction' # prediction /\ calls' = calls) =>
              UNCHANGED <<layers, W, B, has_errors_, errors_>>
       /\ (pc = "idle" /\ calls' = calls + 1) => UNCHANGED <<layers, W, B>>
       /\ (pc = "forward") => UNCHANGED <<layers, W, B, has_errors_, errors_>>
       /\ (pc = "epoch_end") => UNCHANGED <<layers, W, B>>
       /\ (pc' \in {"output_delta", "hidden_delta"}) =>
              LET f == forward_pass(W', B', X_train'[j'])
              IN  f.Z = Z' /\ f.A = A']_vars

C12_Witness ==
    /\ state = "Trained"
    /\ epochs >= 1
    /\ prediction.err = NoErr
    /\ prediction.val >= 1
    /\ L >= 2

\* C13: the index predict returns is that of a maximal entry of the final
\* activation vector, and every entry before it is smaller.
C13_PredictIsLowestArgmax ==
    (prediction.val >= 0) =>
        LET a == forward_vector(W, B, prediction.x).val
            p == prediction.val + 1
        IN  /\ p \in 1..Len(a)
            /\ \A q \in 1..Len(a) : a[q] <= a[p]
            /\ \A q \in 1..(p - 1) : a[q] < a[p]

C13_Witness ==
    /\ prediction.val >= 1
    /\ L >= 1
    /\ state = "Trained"
    /\ LET a == forward_vector(W, B, prediction.x).val
       IN  \E q \in (prediction.val + 2)..Len(a) : a[q] = a[prediction.val + 1]

\* C14: once a network is constructed, in every state W and B each hold one
\* entry per index 0..L, entry 0 is the placeholder, W[i] has layers[i] rows of
\* layers[i-1] entries and B[i] has layers[i] entries, for every i in 1..L.
C14_ShapesOfWAndB ==
    (state # "Unbuilt" /\ Len(layers) >= 1) =>
        LET Lc == Len(layers) - 1
        IN  /\ DOMAIN W = 0..Lc
            /\ DOMAIN B = 0..Lc
            /\ W[0] = Placeholder
            /\ B[0] = Placeholder
            /\ \A l \in 1..Lc :
                  /\ Len(W[l]) = layers[l + 1]
                  /\ \A r \in 1..Len(W[l]) : Len(W[l][r]) = layers[l]
                  /\ Len(B[l]) = layers[l + 1]

C14_Witness ==
    /\ state = "Trained"
    /\ L >= 2
    /\ layers[2] # layers[1]
    /\ \A l \in 1..L : W[l] # snaps[1].W[l] /\ B[l] # snaps[1].B[l]

\* half the sum of the squared differences over all entries of a
SquaredError(a, y) ==
    SumTo([q \in 1..Len(a) |-> Mul(a[q] - y[q], a[q] - y[q])], Len(a)) \div 2

\* the mean of SquaredError over the pairs of the dataset under parameters P
MeanSquaredError(P, X, Y) ==
    SumTo([e \in 1..ZipLen(X, Y) |->
              SquaredError(forward_vector(P.W, P.B, X[e]).val, Y[e])],
          ZipLen(X, Y)) \div ZipLen(X, Y)

\* C15: on a non-empty dataset whose pairs fit the topology, whatever the size
\* of the output layer, the loss train records on entry is the mean over the
\* pairs of half the squared error summed over all output entries, and the
\* loss computation raises no IndexError.
C15_LossOverAllOutputEntries ==
    (calls >= 1 /\ PairCount >= 1 /\ WellShaped(layers, X_train, y_train)) =>
        /\ err # "IndexError"
        /\ (state \in {"Training", "Trained"}) =>
               errors_[1] = MeanSquaredError(snaps[1], X_train, y_train)

\* C16: the Z and A the forward pass of a pair returns are indexed 0..L; A[0]
\* is the input and Z[0] the placeholder; for every i in 1..L, Z[i] is
\* W[i] A[i-1] + B[i] and A[i] is the sigmoid of Z[i] entry by entry; the
\* prediction mode returns the A[L] of the full mode.
C16_ForwardPassLayerByLayer ==
    (pc \in {"output_delta", "hidden_delta", "update"}) =>
        /\ DOMAIN Z = 0..L
        /\ DOMAIN A = 0..L
        /\ A[0] = X_train[j]
        /\ Z[0] = Placeholder
        /\ \A l \in 1..L :
              /\ Len(Z[l]) = Len(W_pre[l])
              /\ Len(A[l]) = Len(Z[l])
              /\ \A r \in 1..Len(Z[l]) :
                    /\ Z[l][r] = SumTo([c \in 1..Len(A[l - 1]) |->
                                           Mul(W_pre[l][r][c], A[l - 1][c])],
                                       Len(A[l - 1])) + B_pre[l][r]
                    /\ A[l][r] = sigmoid(Z[l][r])
        /\ forward_vector(W_pre, B_pre, X_train[j]) = [err |-> NoErr, val |-> A[L]]

C16_Witness ==
    /\ pc = "update"
    /\ L >= 3
    /\ k >= 1
    /\ W_pre # snaps[1].W
    /\ A[L] # A[L - 1]

\* C17: nothing of one pair's step is carried into the next: while the
\* backward pass and the update of pair j run, Z and A are those of the forward
\* pass on the input of pair j under the parameters the step started from, the
\* only deltas that exist are those the step has computed so far, and each is
\* the delta of pair j under those parameters.
C17_NoLeakBetweenPairs ==
    (pc \in {"output_delta", "hidden_delta", "update"}) =>
        LET P == [W |-> W_pre, B |-> B_pre]
            f == forward_pass(P.W, P.B, X_train[j])
            d == Backprop(P, X_train[j], y_train[j], L)
        IN  /\ <<Z, A>> = <<f.Z, f.A>>
            /\ DOMAIN deltas =
                   {l \in 1..L : pc = "update" \/ (pc = "hidden_delta" /\ l > i)}
            /\ \A l \in DOMAIN deltas : deltas[l] = d[l]

C17_Witness ==
    /\ pc = "hidden_delta"
    /\ j = 2
    /\ L >= 2
    /\ i = 1
    /\ X_train[1] # X_train[2]
    /\ y_train[1] # y_train[2]
    /\ \A l \in 1..L : updates[l] >= 1

\* C18: no delta is ever stored under key 0; the hidden loop is entered only
\* with L >= 2 and only at indices 1..L-1, so with L = 1 it runs zero times;
\* when the update loop runs the keys of deltas are exactly 1..L; an update
\* step writes W[i] and B[i] of its own index and no other entry, and the
\* backward pass writes none.
C18_DeltaKeysAndUpdatedLayers ==
    [][/\ 0 \notin DOMAIN deltas'
       /\ (pc' = "hidden_delta") => (L' >= 2 /\ i' \in 1..(L' - 1))
       /\ (pc' = "update") => (L' >= 1 /\ i' \in 1..L' /\ DOMAIN deltas' = 1..L')
       /\ (pc = "update") =>
              \A l \in 0..L : (l # i) => (W'[l] = W[l] /\ B'[l] = B[l])
       /\ (pc \in {"output_delta", "hidden_delta"}) => (W' = W /\ B' = B)
       /\ (pc = "output_delta" /\ L = 1) => (pc' \in {"update", "idle"})]_vars

C18_Witness ==
    /\ L = 1
    /\ pc = "forward"
    /\ k >= 1
    /\ DOMAIN deltas = {1}
    /\ updates[1] >= 1
    /\ W[1] # W_pre[1]
    /\ B[1] # B_pre[1]
    /\ W[0] = Placeholder

\* C19: a call to train with epochs = 0 on a non-empty dataset returns with
\* W and B as they were on entry, without having run a pair's step, and with a
\* loss history of exactly one entry, the loss of the dataset on entry.
C19_ZeroEpochsOnlyBaseline ==
    (state = "Trained" /\ epochs = 0 /\ PairCount >= 1) =>
        /\ W = snaps[1].W
        /\ B = snaps[1].B
        /\ \A l \in 1..L : updates[l] = 0
        /\ Len(errors_) = 1
        /\ errors_[1] = MSE(W, B, X_train, y_train).val

C19_Witness ==
    /\ state = "Trained"
    /\ epochs = 0
    /\ calls = 1
    /\ L >= 2
    /\ PairCount = 2
    /\ errors_[1] > 0

\* the smaller of the two lengths of the dataset of the latest train call
MinLen == IF Len(X_train) < Len(y_train) THEN Len(X_train) ELSE Len(y_train)

\* the mean over the first m pairs of the loss of each pair under parameters P
MeanOverFirst(P, m) ==
    SumTo([q \in 1..m |-> mse(forward_vector(P.W, P.B, X_train[q]).val, y_train[q]).val],
          m) \div m

====
